---- MODULE Spec2Model ----
(***************************************************************************)
(* Lifecycle controller of the Maya server "up" command (cmd/up.go):       *)
(* startup (Run), the signal dispatch loop and the graceful-leave race     *)
(* (handleSignals), and live configuration reload (handleReload).          *)
(***************************************************************************)
EXTENDS Integers, Sequences, FiniteSets, TLC

VARIABLES
    pc,          \* position of the main goroutine: START, WAIT, LEAVING, TERMINATED
    mconfig,     \* the active *server.MayaConfig handed to handleSignals
    logFilter,   \* c.logFilter.MinLevel (<<>> while c.logFilter is still nil)
    newConf,     \* handleReload's local newConf as readMayaConfig() returned it,
                 \* kept until the loop waits or races again (NilConfig otherwise)
    signalCh,    \* buffered channel fed by signal.Notify
    shutdownCh,  \* messages pending on the externally owned c.ShutdownCh
    sig,         \* local variable sig of handleSignals
    recvFrom,    \* which case of the WAIT select fired last
    leave,       \* the goroutine running c.maya.Leave(): idle, running, done, failed
    elapsed,     \* seconds since time.After(gracefulTimeout) was armed
    outcome,     \* the exit codes returned by Run, in order
    raceCase,    \* which case of the race select fired: none, signalCh, timer, gracefulCh
    raceSig,     \* the signal the race select took from signalCh (none otherwise)
    maya,        \* c.maya: none, up, down (after Shutdown)
    httpServer   \* c.httpServer: none, up, down (after Shutdown)

vars == <<pc, mconfig, logFilter, newConf, signalCh, shutdownCh, sig, recvFrom,
          leave, elapsed, outcome, raceCase, raceSig, maya, httpServer>>

----------------------------------------------------------------------------
(* Bounds of the model *)

\* messages that may be pending at once on the external shutdown channel
MaxShutdown == 1

----------------------------------------------------------------------------
(* Program constants *)

\* const gracefulTimeout = 5 * time.Second
gracefulTimeout == 5

\* signalCh := make(chan os.Signal, 4)
SignalChCap == 4

SIGINT == "SIGINT"
SIGTERM == "SIGTERM"
SIGHUP == "SIGHUP"
SIGPIPE == "SIGPIPE"

\* signal.Notify(signalCh, os.Interrupt, syscall.SIGTERM, syscall.SIGHUP, syscall.SIGPIPE)
Notified == {SIGINT, SIGTERM, SIGHUP, SIGPIPE}

----------------------------------------------------------------------------
(* Log levels: strings are sequences of characters *)

LowerChars == <<"a","b","c","d","e","f","g","h","i","j","k","l","m",
                "n","o","p","q","r","s","t","u","v","w","x","y","z">>
UpperChars == <<"A","B","C","D","E","F","G","H","I","J","K","L","M",
                "N","O","P","Q","R","S","T","U","V","W","X","Y","Z">>

UpperChar(ch) ==
    IF \E i \in DOMAIN LowerChars : LowerChars[i] = ch
    THEN UpperChars[CHOOSE i \in DOMAIN LowerChars : LowerChars[i] = ch]
    ELSE ch

\* strings.ToUpper
ToUpper(s) == [i \in DOMAIN s |-> UpperChar(s[i])]

\* the severities the level filter knows (server.LevelFilter().Levels)
Levels == << <<"D","E","B","U","G">>, <<"I","N","F","O">>, <<"W","A","R","N">> >>

\* server.ValidateLevelFilter(minLevel, filter)
ValidateLevelFilter(minLevel, levels) ==
    \E i \in DOMAIN levels : levels[i] = minLevel

\* log-level strings a configuration source may carry
LevelInputs == { <<"i","n","f","o">>, <<"W","A","R","N">>, <<"b","a","d">> }

----------------------------------------------------------------------------
(* Configurations *)

\* readMayaConfig() returning nil
NilConfig == [nil |-> TRUE]

\* the fields of server.MayaConfig the controller reads
Configs == [LogLevel : LevelInputs, LeaveOnInt : BOOLEAN, LeaveOnTerm : BOOLEAN]

\* what readMayaConfig() may return
AcquireResults == Configs \cup {NilConfig}

----------------------------------------------------------------------------
(* Initial state: the command object before Run is called *)

Init ==
    /\ pc = "START"
    /\ mconfig = NilConfig
    /\ logFilter = <<>>
    /\ newConf = NilConfig
    /\ signalCh = <<>>
    /\ shutdownCh = 0
    /\ sig = "none"
    /\ recvFrom = "none"
    /\ leave = "idle"
    /\ elapsed = 0
    /\ outcome = <<>>
    /\ raceCase = "none"
    /\ raceSig = "none"
    /\ maya = "none"
    /\ httpServer = "none"

----------------------------------------------------------------------------
(* Run: startup up to the call of handleSignals *)

\* Run returns 1 because readMayaConfig() returned nil
RunConfigFails ==
    /\ pc = "START"
    /\ pc' = "TERMINATED"
    /\ outcome' = Append(outcome, 1)
    /\ UNCHANGED <<mconfig, logFilter, newConf, signalCh, shutdownCh, sig,
                   recvFrom, leave, elapsed, maya, httpServer,
                   raceCase, raceSig>>

\* faulty variant: the rejected level is reported but startup goes on
RunLoggerFailsIgnored ==
    /\ pc = "START"
    /\ \E conf \in Configs :
        /\ ~ValidateLevelFilter(ToUpper(conf.LogLevel), Levels)
        /\ logFilter' = ToUpper(conf.LogLevel)
        /\ mconfig' = conf
    /\ maya' = "up"
    /\ httpServer' = "up"
    /\ pc' = "WAIT"
    /\ UNCHANGED <<newConf, signalCh, shutdownCh, sig, recvFrom, leave,
                   elapsed, outcome, raceCase, raceSig>>
\* Run returns 1 because setupLoggers rejected the configured level; the
\* filter's MinLevel has been assigned before the validation
RunLoggerFails ==
    /\ pc = "START"
    /\ \E conf \in Configs :
        /\ ~ValidateLevelFilter(ToUpper(conf.LogLevel), Levels)
        /\ logFilter' = ToUpper(conf.LogLevel)
    /\ pc' = "TERMINATED"
    /\ outcome' = Append(outcome, 1)
    /\ UNCHANGED <<mconfig, newConf, signalCh, shutdownCh, sig, recvFrom,
                   leave, elapsed, maya, httpServer, raceCase, raceSig>>

\* Run returns 1 because server.NewMayaServer failed
RunAgentFails ==
    /\ pc = "START"
    /\ \E conf \in Configs :
        /\ ValidateLevelFilter(ToUpper(conf.LogLevel), Levels)
        /\ logFilter' = ToUpper(conf.LogLevel)
    /\ pc' = "TERMINATED"
    /\ outcome' = Append(outcome, 1)
    /\ UNCHANGED <<mconfig, newConf, signalCh, shutdownCh, sig, recvFrom,
                   leave, elapsed, maya, httpServer, raceCase, raceSig>>

\* Run returns 1 because server.NewHTTPServer failed; the agent is shut down
RunHTTPFails ==
    /\ pc = "START"
    /\ \E conf \in Configs :
        /\ ValidateLevelFilter(ToUpper(conf.LogLevel), Levels)
        /\ logFilter' = ToUpper(conf.LogLevel)
    /\ maya' = "down"
    /\ pc' = "TERMINATED"
    /\ outcome' = Append(outcome, 1)
    /\ UNCHANGED <<mconfig, newConf, signalCh, shutdownCh, sig, recvFrom,
                   leave, elapsed, httpServer, raceCase, raceSig>>

\* Startup succeeds: Run calls handleSignals(mconfig), which registers the
\* signal channel and blocks in the WAIT select
RunStarts ==
    /\ pc = "START"
    /\ \E conf \in Configs :
        /\ ValidateLevelFilter(ToUpper(conf.LogLevel), Levels)
        /\ logFilter' = ToUpper(conf.LogLevel)
        /\ mconfig' = conf
    /\ maya' = "up"
    /\ httpServer' = "up"
    /\ pc' = "WAIT"
    /\ UNCHANGED <<newConf, signalCh, shutdownCh, sig, recvFrom, leave,
                   elapsed, outcome, raceCase, raceSig>>

----------------------------------------------------------------------------
(* handleSignals: the WAIT select and the dispatch of what it received *)

\* faulty variant: the shutdown message taken for a Terminate
ShutdownSigAsTerminate == SIGTERM
\* case <-c.ShutdownCh: sig = os.Interrupt
ShutdownSig == SIGINT

\* the cases of the WAIT select that can proceed
ReadyCases ==
    (IF signalCh # <<>> THEN {"signalCh"} ELSE {})
        \cup (IF shutdownCh > 0 THEN {"ShutdownCh"} ELSE {})

\* the value of sig after the case `from` fired
Received(from) == IF from = "signalCh" THEN Head(signalCh) ELSE ShutdownSig

\* the receive itself
Take(from) ==
    /\ recvFrom' = from
    /\ sig' = Received(from)
    /\ IF from = "signalCh"
       THEN signalCh' = Tail(signalCh) /\ UNCHANGED shutdownCh
       ELSE shutdownCh' = shutdownCh - 1 /\ UNCHANGED signalCh

\* faulty variant: the SIGPIPE test left out
IsIgnorableNever(s) == FALSE
\* if sig == syscall.SIGPIPE { goto WAIT }
IsIgnorable(s) == s = SIGPIPE

\* faulty variant: either flag makes either signal eligible
GracefulAnyFlag(s, cfg) ==
    /\ s \in {SIGINT, SIGTERM}
    /\ (cfg.LeaveOnInt \/ cfg.LeaveOnTerm)
\* eligibility for a graceful leave
Graceful(s, cfg) ==
    \/ (s = SIGINT /\ cfg.LeaveOnInt)
    \/ (s = SIGTERM /\ cfg.LeaveOnTerm)

\* faulty variant: an invalid level rejects the whole reload
handleReloadRejectsAll(cfg, minNow, nc) ==
    IF nc = NilConfig
    THEN [conf |-> cfg, min |-> minNow]
    ELSE IF ValidateLevelFilter(ToUpper(nc.LogLevel), Levels)
         THEN [conf |-> nc, min |-> ToUpper(nc.LogLevel)]
         ELSE [conf |-> cfg, min |-> minNow]
\* faulty variant: the filter is set to the level as written, not upper-cased
handleReloadRawLevel(cfg, minNow, nc) ==
    IF nc = NilConfig
    THEN [conf |-> cfg, min |-> minNow]
    ELSE IF ValidateLevelFilter(ToUpper(nc.LogLevel), Levels)
         THEN [conf |-> nc, min |-> nc.LogLevel]
         ELSE [conf |-> [nc EXCEPT !.LogLevel = cfg.LogLevel], min |-> minNow]
\* faulty variant: a failed acquisition falls back to a configuration with the
\* leave flags cleared
handleReloadFailureDefaults(cfg, minNow, nc) ==
    IF nc = NilConfig
    THEN [conf |-> [cfg EXCEPT !.LeaveOnInt = FALSE, !.LeaveOnTerm = FALSE],
          min |-> minNow]
    ELSE IF ValidateLevelFilter(ToUpper(nc.LogLevel), Levels)
         THEN [conf |-> nc, min |-> ToUpper(nc.LogLevel)]
         ELSE [conf |-> [nc EXCEPT !.LogLevel = cfg.LogLevel], min |-> minNow]
\* faulty variant: an invalid level is reported but left in the configuration
handleReloadNoRollback(cfg, minNow, nc) ==
    IF nc = NilConfig
    THEN [conf |-> cfg, min |-> minNow]
    ELSE IF ValidateLevelFilter(ToUpper(nc.LogLevel), Levels)
         THEN [conf |-> nc, min |-> ToUpper(nc.LogLevel)]
         ELSE [conf |-> nc, min |-> minNow]
\* handleReload(mconfig) with nc the result of readMayaConfig(): the
\* configuration it returns and the MinLevel it leaves in the filter
handleReload(cfg, minNow, nc) ==
    IF nc = NilConfig
    THEN [conf |-> cfg, min |-> minNow]
    ELSE LET minLevel == ToUpper(nc.LogLevel) IN
         IF ValidateLevelFilter(minLevel, Levels)
         THEN [conf |-> nc, min |-> minLevel]
         ELSE [conf |-> [nc EXCEPT !.LogLevel = cfg.LogLevel], min |-> minNow]

\* faulty variant: a forced exit leaves without running the deferred shutdowns
ReturnSkippingDefers(code) ==
    /\ pc' = "TERMINATED"
    /\ outcome' = Append(outcome, code)
    /\ maya' = IF code = 0 THEN "down" ELSE maya
    /\ httpServer' = IF code = 0 /\ httpServer # "none" THEN "down" ELSE httpServer
\* return code from handleSignals: Run returns it and its deferred
\* c.maya.Shutdown() and c.httpServer.Shutdown() run
Return(code) ==
    /\ pc' = "TERMINATED"
    /\ outcome' = Append(outcome, code)
    /\ maya' = "down"
    /\ httpServer' = IF httpServer # "none" THEN "down" ELSE httpServer

\* a SIGPIPE is received and skipped: goto WAIT
SkipSignal ==
    /\ pc = "WAIT"
    /\ \E from \in ReadyCases :
        /\ IsIgnorable(Received(from))
        /\ Take(from)
    /\ newConf' = NilConfig
    /\ UNCHANGED <<pc, mconfig, logFilter, leave, elapsed, outcome, maya,
                   httpServer, raceCase, raceSig>>

\* faulty variant: a failed acquisition is fatal, as it is at startup
ReloadFatalOnFailure ==
    /\ pc = "WAIT"
    /\ \E from \in ReadyCases :
        /\ ~IsIgnorable(Received(from))
        /\ Received(from) = SIGHUP
        /\ Take(from)
    /\ \E nc \in AcquireResults :
        LET r == handleReload(mconfig, logFilter, nc) IN
        /\ newConf' = nc
        /\ logFilter' = r.min
        /\ mconfig' = IF r.conf # NilConfig THEN r.conf ELSE mconfig
        /\ IF nc = NilConfig
           THEN Return(1)
           ELSE UNCHANGED <<pc, outcome, maya, httpServer>>
    /\ UNCHANGED <<leave, elapsed, raceCase, raceSig>>
\* a SIGHUP is received: handleReload, *mconfig = *conf, goto WAIT
Reload ==
    /\ pc = "WAIT"
    /\ \E from \in ReadyCases :
        /\ ~IsIgnorable(Received(from))
        /\ Received(from) = SIGHUP
        /\ Take(from)
    /\ \E nc \in AcquireResults :
        LET r == handleReload(mconfig, logFilter, nc) IN
        /\ newConf' = nc
        /\ logFilter' = r.min
        /\ mconfig' = IF r.conf # NilConfig THEN r.conf ELSE mconfig
    /\ UNCHANGED <<pc, leave, elapsed, outcome, maya, httpServer, raceCase, raceSig>>

\* a signal not eligible for a graceful leave is received: return 1
Bail ==
    /\ pc = "WAIT"
    /\ \E from \in ReadyCases :
        /\ ~IsIgnorable(Received(from))
        /\ Received(from) # SIGHUP
        /\ ~Graceful(Received(from), mconfig)
        /\ Take(from)
    /\ Return(1)
    /\ UNCHANGED <<mconfig, logFilter, newConf, leave, elapsed, raceCase, raceSig>>

\* an eligible signal is received: the goroutine calling c.maya.Leave() is
\* started and the race select is entered, arming time.After(gracefulTimeout)
StartLeave ==
    /\ pc = "WAIT"
    /\ \E from \in ReadyCases :
        /\ ~IsIgnorable(Received(from))
        /\ Received(from) # SIGHUP
        /\ Graceful(Received(from), mconfig)
        /\ Take(from)
    /\ pc' = "LEAVING"
    /\ leave' = "running"
    /\ elapsed' = 0
    /\ newConf' = NilConfig
    /\ UNCHANGED <<mconfig, logFilter, outcome, maya, httpServer, raceCase, raceSig>>

----------------------------------------------------------------------------
(* handleSignals: the race between a signal, the timer and the leave *)

\* faulty variant: the timer fires a second early
TimerFiredEarly == elapsed >= gracefulTimeout - 1
\* <-time.After(gracefulTimeout) can proceed
TimerFired == elapsed = gracefulTimeout

\* faulty variant: the channel is closed after a Leave that returned an error too
GracefulChClosedOnError == leave \in {"done", "failed"}
\* <-gracefulCh can proceed: the channel is closed after a Leave without error
GracefulChClosed == leave = "done"

\* faulty variant: a second signal is honoured only once the timer has fired
RaceSignalAfterGrace ==
    /\ pc = "LEAVING"
    /\ signalCh # <<>>
    /\ TimerFired
    /\ signalCh' = Tail(signalCh)
    /\ Return(1)
    /\ raceCase' = "signalCh"
    /\ raceSig' = Head(signalCh)
    /\ UNCHANGED <<mconfig, logFilter, newConf, shutdownCh, sig, recvFrom,
                   leave, elapsed>>
\* faulty variant: a SIGHUP taken by the race select reloads and keeps racing
RaceSignalReloads ==
    /\ pc = "LEAVING"
    /\ signalCh # <<>>
    /\ signalCh' = Tail(signalCh)
    /\ IF Head(signalCh) = SIGHUP
       THEN /\ \E nc \in AcquireResults :
                LET r == handleReload(mconfig, logFilter, nc) IN
                /\ logFilter' = r.min
                /\ mconfig' = r.conf
            /\ UNCHANGED <<pc, outcome, maya, httpServer, raceCase, raceSig>>
       ELSE /\ Return(1)
            /\ raceCase' = "signalCh"
            /\ raceSig' = Head(signalCh)
            /\ UNCHANGED <<mconfig, logFilter>>
    /\ UNCHANGED <<newConf, shutdownCh, sig, recvFrom, leave, elapsed>>
\* case <-signalCh: return 1, whatever the signal
RaceSignal ==
    /\ pc = "LEAVING"
    /\ signalCh # <<>>
    /\ signalCh' = Tail(signalCh)
    /\ Return(1)
    /\ raceCase' = "signalCh"
    /\ raceSig' = Head(signalCh)
    /\ UNCHANGED <<mconfig, logFilter, newConf, shutdownCh, sig, recvFrom,
                   leave, elapsed>>

\* case <-time.After(gracefulTimeout): return 1
RaceTimeout ==
    /\ pc = "LEAVING"
    /\ TimerFired
    /\ Return(1)
    /\ raceCase' = "timer"
    /\ UNCHANGED <<mconfig, logFilter, newConf, signalCh, shutdownCh, sig,
                   recvFrom, leave, elapsed, raceSig>>

\* faulty variant: a completed leave still exits 1
RaceDoneForced ==
    /\ pc = "LEAVING"
    /\ GracefulChClosed
    /\ Return(1)
    /\ raceCase' = "gracefulCh"
    /\ UNCHANGED <<mconfig, logFilter, newConf, signalCh, shutdownCh, sig,
                   recvFrom, leave, elapsed, raceSig>>
\* faulty variant: a leave that completes after the race was resolved is
\* still acted upon
RaceDoneLate ==
    /\ pc \in {"LEAVING", "TERMINATED"}
    /\ raceCase # "gracefulCh"
    /\ GracefulChClosed
    /\ Return(0)
    /\ raceCase' = "gracefulCh"
    /\ UNCHANGED <<mconfig, logFilter, newConf, signalCh, shutdownCh, sig,
                   recvFrom, leave, elapsed, raceSig>>
\* case <-gracefulCh: return 0
RaceDone ==
    /\ pc = "LEAVING"
    /\ GracefulChClosed
    /\ Return(0)
    /\ raceCase' = "gracefulCh"
    /\ UNCHANGED <<mconfig, logFilter, newConf, signalCh, shutdownCh, sig,
                   recvFrom, leave, elapsed, raceSig>>

----------------------------------------------------------------------------
(* The environment: the leave goroutine, the clock, signals and senders *)

\* c.maya.Leave() returns nil: close(gracefulCh)
LeaveSucceeds ==
    /\ leave = "running"
    /\ leave' = "done"
    /\ UNCHANGED <<pc, mconfig, logFilter, newConf, signalCh, shutdownCh, sig,
                   recvFrom, elapsed, outcome, maya, httpServer,
                   raceCase, raceSig>>

\* c.maya.Leave() returns an error: it is reported and gracefulCh stays open
LeaveFails ==
    /\ leave = "running"
    /\ leave' = "failed"
    /\ UNCHANGED <<pc, mconfig, logFilter, newConf, signalCh, shutdownCh, sig,
                   recvFrom, elapsed, outcome, maya, httpServer,
                   raceCase, raceSig>>

\* one second of the grace period passes
Tick ==
    /\ pc = "LEAVING"
    /\ elapsed < gracefulTimeout
    /\ elapsed' = elapsed + 1
    /\ UNCHANGED <<pc, mconfig, logFilter, newConf, signalCh, shutdownCh, sig,
                   recvFrom, leave, outcome, maya, httpServer,
                   raceCase, raceSig>>

\* a notified signal is delivered: signal.Notify sends without blocking, so a
\* signal that finds the buffer full is dropped and changes nothing
SignalArrives ==
    /\ pc \in {"WAIT", "LEAVING"}
    /\ Len(signalCh) < SignalChCap
    /\ \E s \in Notified : signalCh' = Append(signalCh, s)
    /\ UNCHANGED <<pc, mconfig, logFilter, newConf, shutdownCh, sig, recvFrom,
                   leave, elapsed, outcome, maya, httpServer,
                   raceCase, raceSig>>

\* the owner of ShutdownCh sends a message
ShutdownSent ==
    /\ pc # "TERMINATED"
    /\ shutdownCh < MaxShutdown
    /\ shutdownCh' = shutdownCh + 1
    /\ UNCHANGED <<pc, mconfig, logFilter, newConf, signalCh, sig, recvFrom,
                   leave, elapsed, outcome, maya, httpServer,
                   raceCase, raceSig>>

----------------------------------------------------------------------------

Next ==
    \/ RunConfigFails
    \/ RunLoggerFails
    \/ RunAgentFails
    \/ RunHTTPFails
    \/ RunStarts
    \/ SkipSignal
    \/ Reload
    \/ Bail
    \/ StartLeave
    \/ RaceSignal
    \/ RaceTimeout
    \/ RaceDone
    \/ LeaveSucceeds
    \/ LeaveFails
    \/ Tick
    \/ SignalArrives
    \/ ShutdownSent

Spec == Init /\ [][Next]_vars

\* time passes, and a select with a case that can proceed does proceed
LiveSpec ==
    /\ Spec
    /\ WF_vars(Tick)
    /\ WF_vars(RaceSignal \/ RaceTimeout \/ RaceDone)

----------------------------------------------------------------------------
(* Steps of the dispatch loop, as the properties below recognise them *)

\* the WAIT select receives the signal s from signalCh
ReceivesAtWait(s) ==
    /\ pc = "WAIT"
    /\ signalCh # <<>>
    /\ Head(signalCh) = s
    /\ signalCh' = Tail(signalCh)

\* the race select returns
RaceResolves == pc = "LEAVING" /\ pc' = "TERMINATED"

\* a requested level is one the filter knows, after case normalisation
ValidLevel(l) == \E i \in DOMAIN Levels : Levels[i] = ToUpper(l)

----------------------------------------------------------------------------
(* C1: when the dispatched signal is an Interrupt and leaveOnInterrupt is   *)
(* false, or a Terminate and leaveOnTerminate is false, the lifecycle has   *)
(* ended with exit code 1 and Leave was never invoked, whatever the value   *)
(* of the other signal's flag.                                              *)
C1_IneligibleExitsWithoutLeave ==
    /\ (sig = SIGINT /\ ~mconfig.LeaveOnInt)
          => (pc = "TERMINATED" /\ outcome = <<1>> /\ leave = "idle")
    /\ (sig = SIGTERM /\ ~mconfig.LeaveOnTerm)
          => (pc = "TERMINATED" /\ outcome = <<1>> /\ leave = "idle")

C1_Witness ==
    /\ sig = SIGINT
    /\ ~mconfig.LeaveOnInt
    /\ mconfig.LeaveOnTerm
    /\ pc = "TERMINATED"
    /\ outcome = <<1>>
    /\ leave = "idle"

(* C2: with leaveOnInterrupt set and an Interrupt dispatched, when the race *)
(* is resolved with the departure completed, no second signal received and  *)
(* the grace period not elapsed, the outcome is exit code 0.                *)
C2_CompletedLeaveExitsZero ==
    [][ ( /\ RaceResolves
          /\ sig = SIGINT
          /\ mconfig.LeaveOnInt
          /\ leave = "done"
          /\ signalCh = <<>>
          /\ elapsed < gracefulTimeout )
        => outcome' = <<0>> ]_vars

C2_Witness ==
    /\ pc = "TERMINATED"
    /\ sig = SIGINT
    /\ mconfig.LeaveOnInt
    /\ raceCase = "gracefulCh"
    /\ elapsed < gracefulTimeout
    /\ signalCh = <<>>
    /\ outcome = <<0>>

(* C3: once a leave is launched the lifecycle eventually terminates; when   *)
(* the race is resolved with the departure not completed and no second      *)
(* signal received, the outcome is exit code 1 and the grace period of 5    *)
(* has elapsed in full.                                                     *)
C3_HungLeaveTimesOut ==
    /\ [][ (RaceResolves /\ leave # "done" /\ signalCh = <<>>)
           => (outcome' = <<1>> /\ raceCase' = "timer" /\ elapsed = 5) ]_vars
    /\ ((pc = "LEAVING") ~> (pc = "TERMINATED"))

C3_Witness ==
    /\ pc = "TERMINATED"
    /\ raceCase = "timer"
    /\ leave = "running"
    /\ signalCh = <<>>
    /\ elapsed = gracefulTimeout
    /\ outcome = <<1>>

(* C4: during the race, a second signal pending while the departure has not *)
(* completed and the grace period has not elapsed can be received at once,  *)
(* and when the race is resolved in that situation the outcome is exit code *)
(* 1, by the signal case, with no further time waited.                      *)
C4_SecondSignalExitsAtOnce ==
    /\ []( (pc = "LEAVING" /\ signalCh # <<>>) => ENABLED RaceSignal )
    /\ [][ ( /\ RaceResolves
             /\ signalCh # <<>>
             /\ leave # "done"
             /\ elapsed < gracefulTimeout )
           => ( /\ outcome' = <<1>>
                /\ raceCase' = "signalCh"
                /\ elapsed' = elapsed ) ]_vars

C4_Witness ==
    /\ pc = "TERMINATED"
    /\ raceCase = "signalCh"
    /\ leave = "running"
    /\ elapsed < gracefulTimeout
    /\ outcome = <<1>>

(* C5: while a graceful leave is armed, a message pending on the shutdown   *)
(* channel can be received at once and ends the lifecycle with exit code 1, *)
(* as a second signal does.                                                 *)
C5_ShutdownMessageForcesExit ==
    (pc = "LEAVING" /\ shutdownCh > 0)
        => ENABLED ( /\ Next
                     /\ shutdownCh' = shutdownCh - 1
                     /\ pc' = "TERMINATED"
                     /\ outcome' = <<1>> )

(* C6: a message received from the shutdown channel in the WAIT select is   *)
(* handled as an Interrupt: with leaveOnInterrupt set the leave is launched *)
(* and the race entered, otherwise the lifecycle ends with exit code 1      *)
(* without Leave; leaveOnTerminate plays no part, and the configuration and *)
(* the log filter are untouched.                                            *)
C6_ShutdownIsInterrupt ==
    [][ (shutdownCh' < shutdownCh)
        => ( /\ pc = "WAIT"
             /\ sig' = SIGINT
             /\ mconfig' = mconfig
             /\ logFilter' = logFilter
             /\ IF mconfig.LeaveOnInt
                THEN pc' = "LEAVING" /\ leave' = "running" /\ outcome' = <<>>
                ELSE pc' = "TERMINATED" /\ leave' = "idle" /\ outcome' = <<1>> ) ]_vars

C6_Witness ==
    /\ pc = "LEAVING"
    /\ recvFrom = "ShutdownCh"
    /\ mconfig.LeaveOnInt
    /\ ~mconfig.LeaveOnTerm
    /\ leave = "running"

(* C7: a broken-pipe received in the WAIT select changes nothing but the    *)
(* channel it was taken from: the loop is waiting again with the same       *)
(* active configuration, log filter level, leave state and no outcome, so   *)
(* an Interrupt that follows is dispatched from the state it would have     *)
(* been dispatched from alone.                                              *)
C7_BrokenPipeTransparent ==
    /\ [][ ReceivesAtWait(SIGPIPE)
           => ( /\ pc' = "WAIT"
                /\ UNCHANGED <<mconfig, logFilter, shutdownCh, leave, elapsed,
                               outcome, raceCase, raceSig, maya, httpServer>> ) ]_vars
    /\ []( sig = SIGPIPE => (pc = "WAIT" /\ outcome = <<>> /\ leave = "idle") )

C7_Witness ==
    /\ pc = "WAIT"
    /\ sig = SIGPIPE
    /\ signalCh = <<SIGINT>>
    /\ outcome = <<>>

(* C8: the arrival of a broken-pipe never, by itself, produces an exit      *)
(* code, aborts a graceful leave or triggers a reload: whenever a           *)
(* broken-pipe is taken from the signal channel, in the WAIT select or in   *)
(* the race, the position of the loop, the outcome, the configuration and   *)
(* the log filter stay as they were.                                        *)
C8_BrokenPipeNeverDispatched ==
    [][ ( /\ signalCh # <<>>
          /\ Head(signalCh) = SIGPIPE
          /\ signalCh' = Tail(signalCh) )
        => ( /\ pc' = pc
             /\ outcome' = outcome
             /\ mconfig' = mconfig
             /\ logFilter' = logFilter ) ]_vars

(* C9: a reload whose acquisition succeeds with an invalid log level is     *)
(* accepted: the active configuration takes every field of the acquired     *)
(* one except the log level, which stays the prior one, the log filter's    *)
(* minimum level is unchanged, and the loop waits again.                    *)
C9_InvalidLevelRollsBackLevelOnly ==
    [][ ( /\ ReceivesAtWait(SIGHUP)
          /\ newConf' # NilConfig
          /\ ~ValidLevel(newConf'.LogLevel) )
        => ( /\ mconfig'.LeaveOnInt = newConf'.LeaveOnInt
             /\ mconfig'.LeaveOnTerm = newConf'.LeaveOnTerm
             /\ mconfig'.LogLevel = mconfig.LogLevel
             /\ logFilter' = logFilter
             /\ pc' = "WAIT" ) ]_vars

C9_Witness ==
    /\ pc = "WAIT"
    /\ sig = SIGHUP
    /\ newConf # NilConfig
    /\ ~ValidLevel(newConf.LogLevel)
    /\ mconfig.LogLevel # newConf.LogLevel
    /\ mconfig.LeaveOnInt = newConf.LeaveOnInt
    /\ mconfig.LeaveOnTerm = newConf.LeaveOnTerm
    /\ logFilter = ToUpper(mconfig.LogLevel)

(* C10: a reload whose acquisition succeeds with a valid log level leaves   *)
(* the log filter's minimum level at the upper-cased requested level, the   *)
(* active configuration's log level at the level as requested, and every    *)
(* other field at the acquired configuration's value.                       *)
C10_ValidLevelApplied ==
    [][ ( /\ ReceivesAtWait(SIGHUP)
          /\ newConf' # NilConfig
          /\ ValidLevel(newConf'.LogLevel) )
        => ( /\ logFilter' = ToUpper(newConf'.LogLevel)
             /\ \E i \in DOMAIN Levels : Levels[i] = logFilter'
             /\ mconfig'.LogLevel = newConf'.LogLevel
             /\ mconfig'.LeaveOnInt = newConf'.LeaveOnInt
             /\ mconfig'.LeaveOnTerm = newConf'.LeaveOnTerm
             /\ pc' = "WAIT" ) ]_vars

C10_Witness ==
    /\ pc = "WAIT"
    /\ sig = SIGHUP
    /\ newConf # NilConfig
    /\ newConf.LogLevel = <<"i","n","f","o">>
    /\ logFilter = <<"I","N","F","O">>
    /\ mconfig = newConf

(* C11: a reload whose acquisition fails leaves the active configuration,  *)
(* every field of it, and the log filter's minimum level as they were, and  *)
(* the loop waits again.                                                    *)
C11_FailedAcquisitionChangesNothing ==
    [][ (ReceivesAtWait(SIGHUP) /\ newConf' = NilConfig)
        => ( /\ mconfig' = mconfig
             /\ logFilter' = logFilter
             /\ pc' = "WAIT" ) ]_vars

C11_Witness ==
    /\ pc = "WAIT"
    /\ sig = SIGHUP
    /\ newConf = NilConfig
    /\ mconfig.LeaveOnInt
    /\ mconfig.LeaveOnTerm
    /\ logFilter = <<"W","A","R","N">>

(* C12: a hangup dispatched from the WAIT select never ends the lifecycle,  *)
(* whatever the reload's result: no exit code is produced, Leave is not     *)
(* invoked, nothing is shut down and the loop waits again.                  *)
C12_ReloadNeverTerminates ==
    /\ [][ ReceivesAtWait(SIGHUP)
           => ( /\ pc' = "WAIT"
                /\ outcome' = <<>>
                /\ leave' = "idle"
                /\ maya' = "up"
                /\ httpServer' = "up" ) ]_vars
    /\ []( sig = SIGHUP => (pc = "WAIT" /\ outcome = <<>> /\ leave = "idle") )

C12_Witness ==
    /\ pc = "WAIT"
    /\ sig = SIGHUP
    /\ outcome = <<>>
    /\ leave = "idle"
    /\ maya = "up"
    /\ httpServer = "up"

(* C13: when Leave has returned an error the outcome is never exit code 0:  *)
(* the race is resolved by the timer or by a second signal, with exit code  *)
(* 1, and the lifecycle does end that way; Leave is invoked at most once,   *)
(* never again after it was started.                                        *)
C13_LeaveErrorNeverExitsZero ==
    /\ []( leave = "failed" => outcome \in {<<>>, <<1>>} )
    /\ [][ (RaceResolves /\ leave = "failed")
           => (outcome' = <<1>> /\ raceCase' \in {"timer", "signalCh"}) ]_vars
    /\ [][ (leave # "idle")
           => (leave' # "idle" /\ (leave' = "running" => leave = "running")) ]_vars
    /\ ((leave = "failed") ~> (pc = "TERMINATED" /\ outcome = <<1>>))

C13_Witness ==
    /\ pc = "TERMINATED"
    /\ leave = "failed"
    /\ raceCase = "timer"
    /\ signalCh = <<>>
    /\ outcome = <<1>>

(* C14: once startup has succeeded, the agent and the HTTP server are up    *)
(* while the loop waits or races, and on every exit from the loop           *)
(* (ineligible signal, second signal, timeout, completed departure) both    *)
(* have been shut down.                                                     *)
C14_ShutdownOnEveryExit ==
    /\ (pc \in {"WAIT", "LEAVING"}) => (maya = "up" /\ httpServer = "up")
    /\ (pc = "TERMINATED" /\ mconfig # NilConfig)
          => (maya = "down" /\ httpServer = "down" /\ outcome \in {<<0>>, <<1>>})

C14_Witness ==
    /\ pc = "TERMINATED"
    /\ mconfig # NilConfig
    /\ raceCase = "signalCh"
    /\ outcome = <<1>>
    /\ maya = "down"
    /\ httpServer = "down"

(* C15: when startup has failed (no configuration acquired, so no filter;   *)
(* a filter level the filter does not know; or no HTTP server, because the  *)
(* agent or the HTTP server did not start), Run has returned 1 without      *)
(* entering the dispatch loop: no signal was received or dispatched, no     *)
(* reload performed, no configuration made active and Leave never invoked.  *)
StartupFailed ==
    /\ pc # "START"
    /\ \/ logFilter = <<>>
       \/ ~ValidateLevelFilter(logFilter, Levels)
       \/ httpServer = "none"

C15_StartupFailureIsFatal ==
    StartupFailed
        => ( /\ pc = "TERMINATED"
             /\ outcome = <<1>>
             /\ sig = "none"
             /\ recvFrom = "none"
             /\ signalCh = <<>>
             /\ newConf = NilConfig
             /\ mconfig = NilConfig
             /\ leave = "idle" )

C15_Witness ==
    /\ pc = "TERMINATED"
    /\ logFilter # <<>>
    /\ ~ValidateLevelFilter(logFilter, Levels)
    /\ outcome = <<1>>
    /\ sig = "none"
    /\ leave = "idle"

(* C16: the lifecycle produces at most one outcome, exactly one once it has *)
(* terminated, and nothing changes it afterwards; a race is resolved by     *)
(* exactly one of its three cases, which fixes the exit code (0 for the     *)
(* completed departure, 1 for a second signal or the timer), and a          *)
(* departure that completes or fails after that changes neither the case    *)
(* nor the outcome.                                                         *)
C16_ExactlyOneOutcome ==
    /\ []( /\ Len(outcome) <= 1
           /\ (pc = "TERMINATED" <=> Len(outcome) = 1)
           /\ (pc # "TERMINATED" => raceCase = "none") )
    /\ []( (pc = "TERMINATED" /\ leave # "idle")
           => \/ (raceCase = "gracefulCh" /\ outcome = <<0>>)
              \/ (raceCase \in {"signalCh", "timer"} /\ outcome = <<1>>) )
    /\ [][ (pc = "TERMINATED")
           => ( /\ pc' = "TERMINATED"
                /\ outcome' = outcome
                /\ raceCase' = raceCase ) ]_vars

C16_Witness ==
    /\ pc = "TERMINATED"
    /\ raceCase = "timer"
    /\ leave = "done"
    /\ outcome = <<1>>

(* C17: in every reachable state in which the log filter exists, its        *)
(* minimum level is one of the filter's valid levels, whether it was set by *)
(* the startup logger setup or by a reload.                                 *)
C17_FilterLevelAlwaysValid ==
    (logFilter # <<>>) => ValidateLevelFilter(logFilter, Levels)

(* C18: eligibility is decided from the configuration active at dispatch,  *)
(* a partially rolled-back one included: right after a reload that acquired *)
(* a configuration with an invalid log level, an Interrupt is handled       *)
(* according to the acquired leaveOnInterrupt, and a Terminate according to *)
(* the acquired leaveOnTerminate, whatever the flags were before.           *)
C18_EligibilityFromReloadedFlags ==
    [][ ( /\ sig = SIGHUP
          /\ newConf # NilConfig
          /\ ~ValidLevel(newConf.LogLevel) )
        => ( /\ ReceivesAtWait(SIGINT)
                  => IF newConf.LeaveOnInt
                     THEN pc' = "LEAVING" /\ leave' = "running" /\ outcome' = <<>>
                     ELSE pc' = "TERMINATED" /\ leave' = "idle" /\ outcome' = <<1>>
             /\ ReceivesAtWait(SIGTERM)
                  => IF newConf.LeaveOnTerm
                     THEN pc' = "LEAVING" /\ leave' = "running" /\ outcome' = <<>>
                     ELSE pc' = "TERMINATED" /\ leave' = "idle" /\ outcome' = <<1>> ) ]_vars

C18_Witness ==
    /\ pc = "TERMINATED"
    /\ sig = SIGINT
    /\ recvFrom = "signalCh"
    /\ newConf # NilConfig
    /\ ~ValidLevel(newConf.LogLevel)
    /\ ~newConf.LeaveOnInt
    /\ newConf.LeaveOnTerm
    /\ mconfig.LogLevel # newConf.LogLevel
    /\ outcome = <<1>>
    /\ leave = "idle"

(* C19: whenever the dispatch loop is waiting, after startup and after any  *)
(* sequence of successful, invalid-level and failed reloads, the log        *)
(* filter's minimum level is the upper-cased log level of the active        *)
(* configuration.                                                           *)
C19_FilterAgreesWithConfig ==
    (pc = "WAIT") => (logFilter = ToUpper(mconfig.LogLevel))

C19_Witness ==
    /\ pc = "WAIT"
    /\ sig = SIGHUP
    /\ newConf # NilConfig
    /\ ~ValidLevel(newConf.LogLevel)
    /\ mconfig.LogLevel = <<"i","n","f","o">>
    /\ logFilter = <<"I","N","F","O">>

(* C20: a hangup taken from the signal channel while the graceful-leave     *)
(* race is in progress ends the lifecycle with exit code 1 and reloads      *)
(* nothing: the active configuration and the log filter's minimum level     *)
(* stay as they were; they only ever change at startup or from the waiting  *)
(* state.                                                                   *)
C20_HangupDuringRaceIsSecondSignal ==
    /\ [][ ( /\ pc = "LEAVING"
             /\ signalCh # <<>>
             /\ Head(signalCh) = SIGHUP
             /\ signalCh' = Tail(signalCh) )
           => ( /\ pc' = "TERMINATED"
                /\ outcome' = <<1>>
                /\ mconfig' = mconfig
                /\ logFilter' = logFilter ) ]_vars
    /\ [][ (mconfig' # mconfig \/ logFilter' # logFilter)
           => pc \in {"START", "WAIT"} ]_vars

C20_Witness ==
    /\ pc = "TERMINATED"
    /\ raceCase = "signalCh"
    /\ raceSig = SIGHUP
    /\ leave = "running"
    /\ elapsed < gracefulTimeout
    /\ outcome = <<1>>

====
